---- MODULE Spec2Model ----
(***************************************************************************)
(* The cross-window coordinator of synergyflow, in its two variants:       *)
(*   native  - the Electron main process (windows, registerWindow, the     *)
(*             'particle-exit' handler and the 3 ms state loop);           *)
(*   worker  - the SharedWorker of the web version (connections, nextId,   *)
(*             onconnect, the heartbeat handler, handleParticleExit and    *)
(*             the 3 ms state loop).                                       *)
(* JavaScript runs each handler to completion, so one handler is one       *)
(* action.                                                                 *)
(***************************************************************************)
EXTENDS Integers, Sequences, FiniteSets, TLC

(***************************************************************************)
(* JavaScript numbers.  A number is NaN, an infinity, or an exact real of  *)
(* the form  SUM q_r * sqrt(r)  with r squarefree and q_r a non-zero       *)
(* reduced fraction: t maps each radicand r to its coefficient.  Rounding  *)
(* of IEEE doubles is not modelled; the non-finite results of a division   *)
(* by zero are.                                                            *)
(***************************************************************************)
Abs(i) == IF i < 0 THEN -i ELSE i

RECURSIVE Gcd(_, _)
Gcd(a, b) == IF b = 0 THEN a ELSE Gcd(b, a % b)

\* The reduced fraction n/d (d # 0), denominator positive.
Rat(n, d) ==
  LET g == Gcd(Abs(n), Abs(d))
      s == IF d < 0 THEN -1 ELSE 1
  IN  [n |-> s * (n \div g), d |-> s * (d \div g)]

RatZero == [n |-> 0, d |-> 1]

RatAdd(a, b) ==
  LET g == Gcd(a.d, b.d)
  IN  Rat(a.n * (b.d \div g) + b.n * (a.d \div g), (a.d \div g) * b.d)

RatMul(a, b) ==
  LET g1 == Gcd(Abs(a.n), b.d)
      g2 == Gcd(Abs(b.n), a.d)
  IN  IF a.n = 0 \/ b.n = 0 THEN RatZero
      ELSE Rat((a.n \div g1) * (b.n \div g2), (a.d \div g2) * (b.d \div g1))

RatLess(a, b) == a.n * b.d < b.n * a.d

NaN == [kind |-> "nan", t |-> << >>]
Infinity == [kind |-> "inf", t |-> << >>]
Fin(t) == [kind |-> "fin", t |-> t]
FromRat(q) == Fin(IF q.n = 0 THEN << >> ELSE (1 :> q))
Num(i) == FromRat(Rat(i, 1))
Frac(n, d) == FromRat(Rat(n, d))

IsFinite(a) == a.kind = "fin"
IsZero(a) == a.kind = "fin" /\ DOMAIN a.t = {}
IsRational(a) == a.kind = "fin" /\ DOMAIN a.t \subseteq {1}
Coef(a, r) == IF r \in DOMAIN a.t THEN a.t[r] ELSE RatZero
AsRat(a) == Coef(a, 1)

\* Non-finite operands: NaN wins, an infinity absorbs (its sign is not
\* tracked).
NonFinite(a, b) == IF a.kind = "nan" \/ b.kind = "nan" THEN NaN ELSE Infinity

Add(a, b) ==
  IF ~(IsFinite(a) /\ IsFinite(b)) THEN NonFinite(a, b)
  ELSE LET c(r) == RatAdd(Coef(a, r), Coef(b, r))
           D == {r \in DOMAIN a.t \cup DOMAIN b.t : c(r).n # 0}
       IN  Fin([r \in D |-> c(r)])

Neg(a) ==
  IF ~IsFinite(a) THEN a
  ELSE Fin([r \in DOMAIN a.t |-> [n |-> -a.t[r].n, d |-> a.t[r].d]])

Sub(a, b) == Add(a, Neg(b))

\* q1*sqrt(r1) * q2*sqrt(r2), r1 and r2 squarefree.
MulTerm(r1, q1, r2, q2) ==
  LET g == Gcd(r1, r2)
  IN  Fin(((r1 \div g) * (r2 \div g)) :> RatMul(RatMul(q1, q2), Rat(g, 1)))

RECURSIVE SumTerms(_, _, _)
SumTerms(a, b, P) ==
  IF P = {} THEN Fin(<< >>)
  ELSE LET p == CHOOSE p \in P : TRUE
       IN  Add(MulTerm(p[1], a.t[p[1]], p[2], b.t[p[2]]),
               SumTerms(a, b, P \ {p}))

Mul(a, b) ==
  IF ~(IsFinite(a) /\ IsFinite(b))
    THEN IF IsZero(a) \/ IsZero(b) THEN NaN ELSE NonFinite(a, b)
  ELSE SumTerms(a, b, (DOMAIN a.t) \X (DOMAIN b.t))

\* a / b, b zero or a single term q*sqrt(r) (the only divisors of the code:
\* a rational or a square root of one).  0/0 is NaN, x/0 an infinity.
Div(a, b) ==
  IF ~(IsFinite(a) /\ IsFinite(b)) THEN NaN
  ELSE IF IsZero(b) THEN (IF IsZero(a) THEN NaN ELSE Infinity)
  ELSE LET r == CHOOSE r \in DOMAIN b.t : TRUE
           q == b.t[r]
       IN  Mul(a, Fin(r :> Rat(q.d, q.n * r)))

\* The largest s with s*s dividing m (m > 0), by trial division from k.
RECURSIVE SquarePart(_, _)
SquarePart(m, k) ==
  IF k * k > m THEN 1
  ELSE IF m % (k * k) = 0 THEN k * SquarePart(m \div (k * k), k)
  ELSE SquarePart(m, k + 1)

\* Math.sqrt of a rational.
Sqrt(a) ==
  IF ~IsFinite(a) THEN a
  ELSE IF IsZero(a) THEN a
  ELSE LET q == AsRat(a)
           m == q.n * q.d
           s == SquarePart(m, 2)
       IN  IF q.n < 0 THEN NaN ELSE Fin((m \div (s * s)) :> Rat(s, q.d))

\* Math.max of two rationals.
Max(a, b) ==
  IF ~(IsFinite(a) /\ IsFinite(b)) THEN NaN
  ELSE IF RatLess(AsRat(a), AsRat(b)) THEN b ELSE a


(***************************************************************************)
(* Bounds of the model and the inputs the handlers are driven with.        *)
(***************************************************************************)
\* Windows / tabs ever opened in one run.
MaxClients == 3

Rect(x, y, w, h) == [x |-> x, y |-> y, width |-> w, height |-> h]

\* Screen rectangles a window can be reported at: the two windows of the
\* end-to-end scenario (touching at x = 800), one whose centre is 1200 from
\* the first's, and a resized one inside the first with its centre 60 away.
Rects ==
  { Rect(0, 0, 800, 600), Rect(800, 0, 800, 600), Rect(1200, 0, 800, 600),
    Rect(248, 186, 400, 300) }

\* createWindow opens every window 800 x 600, at any position.
InitialRects == {b \in Rects : b.width = 800 /\ b.height = 600}

\* The initial bounds of a connection of the worker.
Placeholder == Rect(0, 0, 800, 600)

\* particle-exit payloads, as tryTransfer builds them.
Exits ==
  { [x |-> 800, y |-> 300, vx |-> 5, vy |-> 0,
     behavior |-> "flow", offset |-> 0, hue |-> 120],
    [x |-> -200, y |-> 300, vx |-> -5, vy |-> 3,
     behavior |-> "flow", offset |-> 2, hue |-> 0] }

Ids == 1 .. MaxClients

(***************************************************************************)
(* State.                                                                  *)
(***************************************************************************)
VARIABLES
  variant,      \* "native" or "worker": which coordinator runs
  windows,      \* native: the Map id -> {window, bounds}, in insertion order
  lastWinId,    \* native: the id of the last BrowserWindow created
  destroyed,    \* native: ids of the windows that are destroyed
  connections,  \* worker: the Map port -> {id, port, bounds}, in insertion order
  nextId,       \* worker: the id the next connection gets
  closedPorts,  \* worker: ports whose tab is gone
  received,     \* id -> the last rectangle the coordinator was handed for it
  lastOp,       \* the handler that ran last and its input
  spawned,      \* the spawn-particle messages it sent
  updates,      \* the update-state messages it sent
  threw,        \* whether it ended with an exception
  particles,    \* web client: id -> its particles array
  neighbors,    \* web client: id -> the neighbors of its last update-state
  globalGravity,\* web client: id -> the gravity of its last update-state
  inbox,        \* web client: id -> the messages posted to its port, unhandled
  outbox,       \* web client: id -> the messages it posted, unhandled
  nextPid       \* the number the next particle object is told apart by

vars ==
  << variant, windows, lastWinId, destroyed, connections, nextId, closedPorts,
     received, lastOp, spawned, updates, threw,
     particles, neighbors, globalGravity, inbox, outbox, nextPid >>

clientVars == << particles, neighbors, globalGravity, inbox, outbox, nextPid >>

nativeVars == << windows, lastWinId, destroyed >>
workerVars == << connections, nextId, closedPorts >>

Op(name, id, msg) == [op |-> name, id |-> id, msg |-> msg]
NoMsg == << >>

\* Map helpers over an insertion-ordered sequence of entries.
RECURSIVE IndexOf(_, _, _)
IndexOf(list, id, i) ==
  IF i > Len(list) THEN 0
  ELSE IF list[i].id = id THEN i
  ELSE IndexOf(list, id, i + 1)

Has(list, id) == IndexOf(list, id, 1) # 0
Get(list, id) == list[IndexOf(list, id, 1)]
IdsOf(list) == {list[i].id : i \in 1 .. Len(list)}
\* Mutant of Delete: the entry is looked up under a key the Map never holds.
DeleteNothing(list, id) == list

Delete(list, id) == SelectSeq(list, LAMBDA e : e.id # id)

\* Mutant of SetBounds: one bounds object shared by all entries is written.
SetBoundsShared(list, id, b) ==
  [i \in 1 .. Len(list) |-> [list[i] EXCEPT !.bounds = b]]

\* Mutant of SetBounds: the new bounds go to a copy of the entry, the Map
\* keeps the old one.
SetBoundsOfCopy(list, id, b) == list

SetBounds(list, id, b) ==
  [i \in 1 .. Len(list) |->
     IF list[i].id = id THEN [list[i] EXCEPT !.bounds = b] ELSE list[i]]

\* Both coordinators as their scripts leave them, and no client yet.
Constructed ==
  /\ windows = << >>
  /\ lastWinId = 0
  /\ destroyed = {}
  /\ connections = << >>
  /\ nextId = 1
  /\ closedPorts = {}
  /\ received = << >>
  /\ lastOp = Op("init", 0, NoMsg)
  /\ spawned = << >>
  /\ updates = << >>
  /\ threw = FALSE
  /\ particles = [id \in Ids |-> << >>]
  /\ neighbors = [id \in Ids |-> << >>]
  /\ globalGravity = [id \in Ids |-> [x |-> Num(0), y |-> Num(0)]]
  /\ inbox = [id \in Ids |-> << >>]
  /\ outbox = [id \in Ids |-> << >>]
  /\ nextPid = 1

Init == variant \in {"native", "worker"} /\ Constructed

(***************************************************************************)
(* The gravity solver of the state loop (the same code in both variants).  *)
(***************************************************************************)
\* G of "F = G / distSq" and the floor of distSq.
G == 500000
MinDistSq == 10000

Center(b) ==
  [x |-> Add(Num(b.x), Div(Num(b.width), Num(2))),
   y |-> Add(Num(b.y), Div(Num(b.height), Num(2)))]

\* One pass of the inner forEach for a target other than the source, from
\* distSq on: the neighbour entry and the force it adds.
PairOf(id, dx, dy, distSq, dist) ==
  [id |-> id, dx |-> dx, dy |-> dy, dist |-> dist,
   fx |-> Mul(Div(dx, dist), Div(Num(G), Max(distSq, Num(MinDistSq)))),
   fy |-> Mul(Div(dy, dist), Div(Num(G), Max(distSq, Num(MinDistSq))))]

PairAt(id, dx, dy, distSq) == PairOf(id, dx, dy, distSq, Sqrt(distSq))

PairBetween(id, sourceCenter, targetCenter) ==
  LET dx == Sub(targetCenter.x, sourceCenter.x)
      dy == Sub(targetCenter.y, sourceCenter.y)
  IN  PairAt(id, dx, dy, Add(Mul(dx, dx), Mul(dy, dy)))

\* The pass for every two rectangles of Rects, with the target's id left to
\* Pair.  (@@ has TLC tabulate the function once.)
PairTable ==
  [b \in Rects \X Rects |-> PairBetween(0, Center(b[1]), Center(b[2]))] @@ << >>

\* Mutant of Pair: sx, sy are the source's corner, not its centre.
PairFromCorner(source, target) ==
  PairBetween(target.id,
              [x |-> Num(source.bounds.x), y |-> Num(source.bounds.y)],
              Center(target.bounds))

Pair(source, target) ==
  [PairTable[<< source.bounds, target.bounds >>] EXCEPT !.id = target.id]

\* Mutant of TotalForce: totalForceX does not start from 0 for a source.
RECURSIVE TotalForceNotReset(_, _)
TotalForceNotReset(pairs, n) ==
  IF n = 0 THEN [x |-> Num(G), y |-> Num(0)]
  ELSE [x |-> Add(TotalForceNotReset(pairs, n - 1).x, pairs[n].fx),
        y |-> Add(TotalForceNotReset(pairs, n - 1).y, pairs[n].fy)]

\* totalForceX / totalForceY after the first n targets.
RECURSIVE TotalForce(_, _)
TotalForce(pairs, n) ==
  IF n = 0 THEN [x |-> Num(0), y |-> Num(0)]
  ELSE [x |-> Add(TotalForce(pairs, n - 1).x, pairs[n].fx),
        y |-> Add(TotalForce(pairs, n - 1).y, pairs[n].fy)]

\* The update-state message sent to a source, from the passes of its inner
\* forEach.
StateOf(id, pairs) ==
  [to |-> id,
   gravity |-> TotalForce(pairs, Len(pairs)),
   neighbors |->
     [i \in 1 .. Len(pairs) |->
        [id |-> pairs[i].id, dx |-> pairs[i].dx, dy |-> pairs[i].dy,
         dist |-> pairs[i].dist]]]

PairsOf(source, targets) ==
  [i \in 1 .. Len(targets) |-> Pair(source, targets[i])]

\* Mutant of UpdateState: the inner forEach without its first line, the
\* return for source = target.
UpdateStateWithSelf(source, list) == StateOf(source.id, PairsOf(source, list))

\* The update-state message computed for one source over the snapshot.
UpdateState(source, list) ==
  StateOf(source.id,
          PairsOf(source, SelectSeq(list, LAMBDA t : t.id # source.id)))

(***************************************************************************)
(* The particle transfer router.                                           *)
(***************************************************************************)
\* Mutant of Contains: the test without its upper bound on x.
ContainsNoRightEdge(b, absX, absY) ==
  /\ absX >= b.x
  /\ absY >= b.y /\ absY <= b.y + b.height

Contains(b, absX, absY) ==
  /\ absX >= b.x /\ absX <= b.x + b.width
  /\ absY >= b.y /\ absY <= b.y + b.height

\* Mutant of FindTarget: the loop without "if (id === senderId) continue".
RECURSIVE FindTargetNoSkip(_, _, _, _, _)
FindTargetNoSkip(list, i, senderId, absX, absY) ==
  IF i > Len(list) THEN 0
  ELSE IF Contains(list[i].bounds, absX, absY) THEN i
  ELSE FindTargetNoSkip(list, i + 1, senderId, absX, absY)

\* The index of the first entry from i on, other than the sender's, whose
\* bounds contain the point; 0 when the loop ends without one.
RECURSIVE FindTarget(_, _, _, _, _)
FindTarget(list, i, senderId, absX, absY) ==
  IF i > Len(list) THEN 0
  ELSE IF list[i].id # senderId /\ Contains(list[i].bounds, absX, absY) THEN i
  ELSE FindTarget(list, i + 1, senderId, absX, absY)

(***************************************************************************)
(* Native variant: the Electron main process.                              *)
(***************************************************************************)
\* createWindow -> registerWindow(win): win.id is the next BrowserWindow id
\* and win.getBounds() the 800 x 600 rectangle it was opened at.
NativeRegisterWindow(b) ==
  /\ variant = "native"
  /\ lastWinId < MaxClients
  /\ LET id == lastWinId + 1
     IN  /\ lastWinId' = id
         /\ windows' = Append(Delete(windows, id), [id |-> id, bounds |-> b])
         /\ received' = Append(received, b)
         /\ lastOp' = Op("register", id, NoMsg)
  /\ spawned' = << >> /\ updates' = << >> /\ threw' = FALSE
  /\ UNCHANGED << clientVars, variant, destroyed, workerVars >>

\* Mutant of OnBoundsChanged: the listener without "if (windows.has(id))",
\* writing the entry with windows.set.
OnBoundsChangedSets(name, id, b) ==
  /\ windows' = IF Has(windows, id) THEN SetBounds(windows, id, b)
                ELSE Append(windows, [id |-> id, bounds |-> b])
  /\ received' = [received EXCEPT ![id] = b]
  /\ lastOp' = Op(name, id, NoMsg)
  /\ spawned' = << >> /\ updates' = << >> /\ threw' = FALSE
  /\ UNCHANGED << clientVars, variant, lastWinId, destroyed, workerVars >>

\* The body of the 'move' and of the 'resize' listener of window id, with b
\* what win.getBounds() returns.
OnBoundsChanged(name, id, b) ==
  /\ IF Has(windows, id)
       THEN /\ windows' = SetBounds(windows, id, b)
            /\ received' = [received EXCEPT ![id] = b]
       ELSE UNCHANGED << windows, received >>
  /\ lastOp' = Op(name, id, NoMsg)
  /\ spawned' = << >> /\ updates' = << >> /\ threw' = FALSE
  /\ UNCHANGED << clientVars, variant, lastWinId, destroyed, workerVars >>

\* win.on('move'): the window is at a new position, its size unchanged.
NativeMove(id, b) ==
  /\ variant = "native"
  /\ id \in 1 .. lastWinId
  /\ b # received[id]
  /\ b.width = received[id].width /\ b.height = received[id].height
  /\ OnBoundsChanged("move", id, b)

\* win.on('resize'): the window has a new size.
NativeResize(id, b) ==
  /\ variant = "native"
  /\ id \in 1 .. lastWinId
  /\ (b.width # received[id].width \/ b.height # received[id].height)
  /\ OnBoundsChanged("resize", id, b)

\* Mutant of NativeClosed: the entry is removed by position, and the position
\* of a key that is not there is taken to be the last one.
NativeClosedByPosition(id) ==
  /\ variant = "native"
  /\ id \in 1 .. lastWinId
  /\ destroyed' = destroyed \cup {id}
  /\ windows' = IF IndexOf(windows, id, 1) # 0
                  THEN SelectSeq(windows, LAMBDA e : e.id # id)
                  ELSE SubSeq(windows, 1, Len(windows) - 1)
  /\ lastOp' = Op("closed", id, [deleted |-> IndexOf(windows, id, 1) # 0])
  /\ spawned' = << >> /\ updates' = << >> /\ threw' = FALSE
  /\ UNCHANGED << clientVars, variant, lastWinId, received, workerVars >>

\* win.on('closed'): the window is destroyed when the listener runs.  A
\* repeated notification is let through: the listener does not tell.  The
\* step records what windows.delete(id) returns, whether the key was there.
NativeClosed(id) ==
  /\ variant = "native"
  /\ id \in 1 .. lastWinId
  /\ destroyed' = destroyed \cup {id}
  /\ windows' = Delete(windows, id)
  /\ lastOp' = Op("closed", id, [deleted |-> Has(windows, id)])
  /\ spawned' = << >> /\ updates' = << >> /\ threw' = FALSE
  /\ UNCHANGED << clientVars, variant, lastWinId, received, workerVars >>

\* Mutant of NativeRoute: the absolute point is sent, not translated into
\* the target's frame.
NativeRouteUntranslated(list, senderId, m) ==
  IF ~Has(list, senderId) THEN << >>
  ELSE LET senderBounds == Get(list, senderId).bounds
           absX == senderBounds.x + m.x
           absY == senderBounds.y + m.y
           k == FindTarget(list, 1, senderId, absX, absY)
       IN  IF k = 0 THEN << >>
           ELSE << [to |-> list[k].id, x |-> absX, y |-> absY,
                    vx |-> m.vx, vy |-> m.vy, behavior |-> m.behavior,
                    offset |-> m.offset, hue |-> m.hue] >>

\* Mutant of NativeRoute: a sender that is not in the Map is taken to be at
\* the origin instead of the handler returning.
NativeRouteUnknownAtOrigin(list, senderId, m) ==
  LET absX == (IF Has(list, senderId) THEN Get(list, senderId).bounds.x ELSE 0) + m.x
      absY == (IF Has(list, senderId) THEN Get(list, senderId).bounds.y ELSE 0) + m.y
      k == FindTarget(list, 1, senderId, absX, absY)
  IN  IF k = 0 THEN << >>
      ELSE << [to |-> list[k].id,
               x |-> absX - list[k].bounds.x,
               y |-> absY - list[k].bounds.y,
               vx |-> m.vx, vy |-> m.vy, behavior |-> m.behavior,
               offset |-> m.offset, hue |-> m.hue] >>

\* Mutant of NativeRoute: the loop without its "break", so that every window
\* holding the point is sent the particle.
NativeRouteNoBreak(list, senderId, m) ==
  IF ~Has(list, senderId) THEN << >>
  ELSE LET senderBounds == Get(list, senderId).bounds
           absX == senderBounds.x + m.x
           absY == senderBounds.y + m.y
           hits == SelectSeq(list, LAMBDA t :
                     t.id # senderId /\ Contains(t.bounds, absX, absY))
       IN  [i \in 1 .. Len(hits) |->
              [to |-> hits[i].id,
               x |-> absX - hits[i].bounds.x,
               y |-> absY - hits[i].bounds.y,
               vx |-> m.vx, vy |-> m.vy, behavior |-> m.behavior,
               offset |-> m.offset, hue |-> m.hue]]

\* What ipcMain.on('particle-exit') sends for sender senderId and payload m
\* over the Map list: the spawn-particle to the first match, or nothing.
NativeRoute(list, senderId, m) ==
  IF ~Has(list, senderId) THEN << >>
  ELSE LET senderBounds == Get(list, senderId).bounds
           absX == senderBounds.x + m.x
           absY == senderBounds.y + m.y
           k == FindTarget(list, 1, senderId, absX, absY)
       IN  IF k = 0 THEN << >>
           ELSE << [to |-> list[k].id,
                    x |-> absX - list[k].bounds.x,
                    y |-> absY - list[k].bounds.y,
                    vx |-> m.vx, vy |-> m.vy, behavior |-> m.behavior,
                    offset |-> m.offset, hue |-> m.hue] >>

\* ipcMain.on('particle-exit'), event.sender.id = senderId: any window ever
\* created, as the message may arrive after the sender closed.
NativeParticleExit(senderId, m) ==
  /\ variant = "native"
  /\ senderId \in 1 .. lastWinId
  /\ spawned' = NativeRoute(windows, senderId, m)
  \* webContents.send on a destroyed window throws
  /\ threw' = (\E i \in 1 .. Len(spawned') : spawned'[i].to \in destroyed)
  /\ lastOp' = Op("particle-exit", senderId, m)
  /\ updates' = << >>
  /\ UNCHANGED << clientVars, variant, nativeVars, received, workerVars >>

\* Mutant of NativeTickSends: the inner forEach runs over the Map itself, and
\* the entries before the source have gone from it by then.
NativeTickSendsLiveMap(windowList) ==
  [i \in 1 .. Len(windowList) |->
     UpdateState(windowList[i], SubSeq(windowList, i, Len(windowList)))]

\* One run of the native state loop over windowList: an update-state for
\* every source whose window is not destroyed.
NativeTickSends(windowList) ==
  LET live == SelectSeq(windowList, LAMBDA s : s.id \notin destroyed)
  IN  [i \in 1 .. Len(live) |-> UpdateState(live[i], windowList)]

NativeTick ==
  /\ variant = "native"
  /\ updates' = NativeTickSends(windows)
  /\ lastOp' = Op("tick", 0, NoMsg)
  /\ spawned' = << >> /\ threw' = FALSE
  /\ UNCHANGED << clientVars, variant, nativeVars, received, workerVars >>

NextNative ==
  \/ \E b \in InitialRects : NativeRegisterWindow(b)
  \/ \E id \in Ids, b \in Rects : NativeMove(id, b)
  \/ \E id \in Ids, b \in Rects : NativeResize(id, b)
  \/ \E id \in Ids : NativeClosed(id)
  \/ \E id \in Ids, m \in Exits : NativeParticleExit(id, m)
  \/ NativeTick

(***************************************************************************)
(* Worker variant: the SharedWorker.                                       *)
(***************************************************************************)
\* Mutant of WorkerConnect: "nextId" for "nextId++".
WorkerConnectNoIncrement ==
  /\ variant = "worker"
  /\ Len(connections) < MaxClients
  /\ connections' =
       Append(connections,
              [id |-> nextId, port |-> Len(connections) + 1, bounds |-> Placeholder])
  /\ received' = Append(received, Placeholder)
  /\ lastOp' = Op("connect", nextId, NoMsg)
  /\ spawned' = << >> /\ updates' = << >> /\ threw' = FALSE
  /\ UNCHANGED << clientVars, variant, nextId, closedPorts, nativeVars >>

\* self.onconnect: the port is identified with the id it is given.
WorkerConnect ==
  /\ variant = "worker"
  /\ nextId <= MaxClients
  /\ LET id == nextId
     IN  /\ nextId' = id + 1
         /\ connections' =
              Append(connections, [id |-> id, port |-> id, bounds |-> Placeholder])
         /\ received' = Append(received, Placeholder)
         /\ lastOp' = Op("connect", id, NoMsg)
  /\ spawned' = << >> /\ updates' = << >> /\ threw' = FALSE
  /\ UNCHANGED << clientVars, variant, closedPorts, nativeVars >>

\* port.onmessage, data.type = 'heartbeat'.
WorkerHeartbeat(port, b) ==
  /\ variant = "worker"
  /\ port \in 1 .. nextId - 1
  /\ IF \E i \in 1 .. Len(connections) : connections[i].port = port
       THEN /\ connections' =
                 [i \in 1 .. Len(connections) |->
                    IF connections[i].port = port
                      THEN [connections[i] EXCEPT !.bounds = b]
                      ELSE connections[i]]
            /\ received' = [received EXCEPT ![port] = b]
       ELSE UNCHANGED << connections, received >>
  /\ lastOp' = Op("heartbeat", port, NoMsg)
  /\ spawned' = << >> /\ updates' = << >> /\ threw' = FALSE
  /\ UNCHANGED << clientVars, variant, nextId, closedPorts, nativeVars >>

\* handleParticleExit(senderId, {x, y, vx, vy}): the payload it posts keeps
\* only the four destructured fields.
HandleParticleExit(list, senderId, m) ==
  IF ~Has(list, senderId) THEN << >>
  ELSE LET sender == Get(list, senderId)
           absX == sender.bounds.x + m.x
           absY == sender.bounds.y + m.y
           k == FindTarget(list, 1, senderId, absX, absY)
       IN  IF k = 0 THEN << >>
           ELSE << [to |-> list[k].id,
                    x |-> absX - list[k].bounds.x,
                    y |-> absY - list[k].bounds.y,
                    vx |-> m.vx, vy |-> m.vy] >>

\* port.onmessage, data.type = 'particle-exit', on the port given id.
WorkerParticleExit(id, m) ==
  /\ variant = "worker"
  /\ id \in 1 .. nextId - 1
  /\ spawned' = HandleParticleExit(connections, id, m)
  /\ lastOp' = Op("particle-exit", id, m)
  /\ updates' = << >> /\ threw' = FALSE
  /\ UNCHANGED << clientVars, variant, workerVars, received, nativeVars >>

\* Mutant of WorkerTickSends: posting to a port whose tab is gone throws, and
\* the forEach ends there.
WorkerTickSendsUntilClosed(clients) ==
  LET open(n) == \A i \in 1 .. n : clients[i].port \notin closedPorts
      n == CHOOSE k \in 0 .. Len(clients) :
             open(k) /\ (k < Len(clients) => ~open(k + 1))
  IN  [i \in 1 .. n |-> UpdateState(clients[i], clients)]

\* Mutant of WorkerTickSends: the loop leaves out the connections that still
\* have the bounds they were created with.
WorkerTickSendsReported(clients) ==
  LET reported == SelectSeq(clients, LAMBDA c : c.bounds # Placeholder)
  IN  [i \in 1 .. Len(reported) |-> UpdateState(reported[i], reported)]

\* One run of the worker's state loop: an update-state posted to every
\* connection.
WorkerTickSends(clients) ==
  [i \in 1 .. Len(clients) |-> UpdateState(clients[i], clients)]

\* Mutant of WorkerTick: the loop deletes the connections whose port is
\* closed once it has posted.
WorkerTickPrunes ==
  /\ variant = "worker"
  /\ updates' = WorkerTickSends(connections)
  /\ connections' = SelectSeq(connections, LAMBDA c : c.port \notin closedPorts)
  /\ lastOp' = Op("tick", 0, NoMsg)
  /\ spawned' = << >> /\ threw' = FALSE
  /\ UNCHANGED << clientVars, variant, nextId, closedPorts, received, nativeVars >>

WorkerTick ==
  /\ variant = "worker"
  /\ updates' = WorkerTickSends(connections)
  /\ lastOp' = Op("tick", 0, NoMsg)
  /\ spawned' = << >> /\ threw' = FALSE
  /\ UNCHANGED << clientVars, variant, workerVars, received, nativeVars >>

\* A tab closes: its port goes away.  The worker installs no handler for
\* this, so nothing of its state changes.
WorkerTabClosed(port) ==
  /\ variant = "worker"
  /\ port \in (1 .. nextId - 1) \ closedPorts
  /\ closedPorts' = closedPorts \cup {port}
  /\ lastOp' = Op("tab-closed", port, NoMsg)
  /\ spawned' = << >> /\ updates' = << >> /\ threw' = FALSE
  /\ UNCHANGED << clientVars, variant, connections, nextId, received, nativeVars >>

NextWorker ==
  \/ WorkerConnect
  \/ \E port \in Ids, b \in Rects : WorkerHeartbeat(port, b)
  \/ \E id \in Ids, m \in Exits : WorkerParticleExit(id, m)
  \/ \E port \in Ids : WorkerTabClosed(port)
  \/ WorkerTick

(***************************************************************************)
(* Specifications.                                                         *)
(***************************************************************************)
Next == NextNative \/ NextWorker

Spec == Init /\ [][Next]_vars

InitNative == Init /\ variant = "native"

SpecNative == InitNative /\ [][NextNative]_vars

InitWorker == Init /\ variant = "worker"

SpecWorker == InitWorker /\ [][NextWorker]_vars

\* The state loop is a setInterval of 3 ms: the timer keeps firing, and the
\* steps of Next that leave "tick" in lastOp are the runs of the loop
\* (NativeTick, WorkerTick).
TimerFires == lastOp' = Op("tick", 0, NoMsg)

SpecLive == Spec /\ WF_lastOp(TimerFires)

\* The registry of the running variant, as entries with id and bounds.
Registry == IF variant = "native" THEN windows ELSE connections

(***************************************************************************)
(* The web client (app.js) of every tab, and the worker with the messages  *)
(* between them.                                                           *)
(***************************************************************************)
MaxTabs == 2
MaxPid == 2
MaxInbox == 1

\* width and height of the canvas: the inner size of an 800 x 600 window.
Canvas == [width |-> 780, height |-> 560]

\* What "this.x += this.vx; this.y += this.vy" leaves after the forces of one
\* frame: inside the canvas, past its right edge, past its left and top edge.
Moves ==
  { [x |-> 400, y |-> 300, vx |-> 1, vy |-> -2],
    [x |-> 800, y |-> 300, vx |-> 5, vy |-> 0],
    [x |-> -200, y |-> -100, vx |-> -5, vy |-> -3] }

\* One particle in one frame: where it moves, and whether its life runs out.
Steps == [move : Moves, expires : BOOLEAN]

\* Where the window of each tab is on the screen, side by side: the bounds
\* its heartbeat reports.
Screen == [id \in Ids |-> Rect(800 * (id - 1), 0, 800, 600)]

baseHue == [id \in Ids |-> 100 + id]

\* new Particle(sx, sy, 'flare', behavior) of EnergyBall.update; pid tells the
\* object from the others.
NewParticle(pid, behavior, id) ==
  [pid |-> pid, x |-> 400, y |-> 300, vx |-> 0, vy |-> 0,
   behavior |-> behavior, offset |-> 2, hue |-> baseHue[id],
   received |-> FALSE]

\* Mutant of SpawnedParticle: the particle takes the behavior of the message
\* where there is one.
SpawnedParticleKeepsBehavior(pid, payload, id) ==
  [pid |-> pid, x |-> payload.x, y |-> payload.y,
   vx |-> payload.vx, vy |-> payload.vy,
   behavior |-> IF "behavior" \in DOMAIN payload THEN payload.behavior
                ELSE "absorbing",
   offset |-> IF "offset" \in DOMAIN payload THEN payload.offset ELSE 0,
   hue |-> IF "hue" \in DOMAIN payload /\ payload.hue # 0
             THEN payload.hue ELSE baseHue[id],
   received |-> TRUE]

\* The particle the 'spawn-particle' branch of onmessage pushes; received
\* tells it from the particles the client made itself.
SpawnedParticle(pid, payload, id) ==
  [pid |-> pid, x |-> payload.x, y |-> payload.y,
   vx |-> payload.vx, vy |-> payload.vy,
   behavior |-> "absorbing",
   offset |-> IF "offset" \in DOMAIN payload THEN payload.offset ELSE 0,
   hue |-> IF "hue" \in DOMAIN payload /\ payload.hue # 0
             THEN payload.hue ELSE baseHue[id],
   received |-> TRUE]

\* Mutant of TryTransfer: the message is posted without the test of
\* neighbors.length.
TryTransferAlways(p, nbrs) ==
  << [x |-> p.x, y |-> p.y, vx |-> p.vx, vy |-> p.vy,
      behavior |-> p.behavior, offset |-> p.offset, hue |-> p.hue] >>

\* tryTransfer(): the particle-exit it posts, if it posts one; it returns
\* true exactly then.
TryTransfer(p, nbrs) ==
  IF Len(nbrs) > 0
    THEN << [x |-> p.x, y |-> p.y, vx |-> p.vx, vy |-> p.vy,
             behavior |-> p.behavior, offset |-> p.offset, hue |-> p.hue] >>
    ELSE << >>

Removed(p, sent) == [removed |-> TRUE, p |-> p, sent |-> sent]
Kept(p) == [removed |-> FALSE, p |-> p, sent |-> << >>]

\* The two boundary lines of a 'flow' particle for y, then for x before it.
FlowY(p, nbrs) ==
  IF p.y < 0
    THEN IF TryTransfer(p, nbrs) # << >> THEN Removed(p, TryTransfer(p, nbrs))
         ELSE Kept([p EXCEPT !.y = 0, !.vy = -p.vy])
  ELSE IF p.y > Canvas.height
    THEN IF TryTransfer(p, nbrs) # << >> THEN Removed(p, TryTransfer(p, nbrs))
         ELSE Kept([p EXCEPT !.y = Canvas.height, !.vy = -p.vy])
  ELSE Kept(p)

FlowX(p, nbrs) ==
  IF p.x < 0
    THEN IF TryTransfer(p, nbrs) # << >> THEN Removed(p, TryTransfer(p, nbrs))
         ELSE FlowY([p EXCEPT !.x = 0, !.vx = -p.vx], nbrs)
  ELSE IF p.x > Canvas.width
    THEN IF TryTransfer(p, nbrs) # << >> THEN Removed(p, TryTransfer(p, nbrs))
         ELSE FlowY([p EXCEPT !.x = Canvas.width, !.vx = -p.vx], nbrs)
  ELSE FlowY(p, nbrs)

\* The boundary lines of a particle that is neither 'flow' nor 'absorbing'.
Reflect(p) ==
  [p EXCEPT
     !.vx = IF p.x < 0 \/ p.x > Canvas.width THEN -p.vx ELSE p.vx,
     !.vy = IF p.y < 0 \/ p.y > Canvas.height THEN -p.vy ELSE p.vy]

\* Particle.update from the boundary checks on, for the particle as moved.
Bounds(p, nbrs) ==
  IF p.behavior = "flow" THEN FlowX(p, nbrs)
  ELSE IF p.behavior # "absorbing" THEN Kept(Reflect(p))
  ELSE Kept(p)

\* Particle.update(time): [removed, p, sent].
Update(p, move, nbrs) ==
  Bounds([p EXCEPT !.x = move.x, !.y = move.y, !.vx = move.vx, !.vy = move.vy],
         nbrs)

\* A posted particle-exit, with the particle object it was posted for.
Tag(pid, sent) == [k \in 1 .. Len(sent) |-> [pid |-> pid, payload |-> sent[k]]]

Without(list, i) == SubSeq(list, 1, i - 1) \o SubSeq(list, i + 1, Len(list))

\* Mutant of Spliced: the return value of update is not looked at.
SplicedOnLifeOnly(list, i, r, expires) ==
  IF expires THEN Without(list, i) ELSE [list EXCEPT ![i] = r.p]

\* "if (removed || p.life <= 0) particles.splice(i, 1)" for the outcome r of
\* particles[i].update.
Spliced(list, i, r, expires) ==
  IF r.removed \/ expires THEN Without(list, i) ELSE [list EXCEPT ![i] = r.p]

\* The loop of animate from index i down: the array it leaves and the
\* messages it posts, in order.
RECURSIVE AnimateFrom(_, _, _, _, _)
AnimateFrom(list, i, plan, nbrs, posted) ==
  IF i = 0 THEN [particles |-> list, posted |-> posted]
  ELSE AnimateFrom(
         Spliced(list, i, Update(list[i], plan[i].move, nbrs), plan[i].expires),
         i - 1, plan, nbrs,
         posted \o Tag(list[i].pid, Update(list[i], plan[i].move, nbrs).sent))

Tabs == (1 .. (nextId - 1)) \ closedPorts

\* animate(): ball.update() pushes a new particle (none once MaxPid objects
\* were made), then every particle of the array is updated, last to first.
Animate(id, emit, plan) ==
  /\ variant = "worker"
  /\ id \in Tabs
  /\ emit # "none" => nextPid <= MaxPid
  /\ emit = "flow" => Len(neighbors[id]) > 0
  /\ LET emitted == IF emit = "none" THEN particles[id]
                    ELSE Append(particles[id], NewParticle(nextPid, emit, id))
         frame == AnimateFrom(emitted, Len(emitted), plan, neighbors[id], << >>)
     IN  /\ DOMAIN plan = 1 .. Len(emitted)
         /\ particles' = [particles EXCEPT ![id] = frame.particles]
         /\ outbox' = [outbox EXCEPT ![id] = outbox[id] \o frame.posted]
  /\ nextPid' = IF emit = "none" THEN nextPid ELSE nextPid + 1
  /\ lastOp' = Op("animate", id, [emit |-> emit, plan |-> plan])
  /\ spawned' = << >> /\ updates' = << >> /\ threw' = FALSE
  /\ UNCHANGED << variant, workerVars, nativeVars, received,
                  neighbors, globalGravity, inbox >>

\* worker.port.onmessage of tab id, for the message at the head of its port.
ClientOnMessage(id) ==
  /\ variant = "worker"
  /\ id \in Tabs
  /\ inbox[id] # << >>
  /\ LET data == Head(inbox[id])
     IN  /\ IF data.type = "update-state"
              THEN /\ globalGravity' = [globalGravity EXCEPT ![id] = data.gravity]
                   /\ neighbors' = [neighbors EXCEPT ![id] = data.neighbors]
                   /\ UNCHANGED particles
              ELSE /\ particles' =
                        [particles EXCEPT
                           ![id] = Append(@, SpawnedParticle(data.pid, data.payload, id))]
                   /\ UNCHANGED << globalGravity, neighbors >>
         /\ lastOp' = Op("onmessage", id, [type |-> data.type])
  /\ inbox' = [inbox EXCEPT ![id] = Tail(@)]
  /\ spawned' = << >> /\ updates' = << >> /\ threw' = FALSE
  /\ UNCHANGED << variant, workerVars, nativeVars, received, outbox, nextPid >>

\* What a run of the state loop posts to the port of client id.
Posted(sends, id) ==
  LET mine == SelectSeq(sends, LAMBDA u : u.to = id)
  IN  [k \in 1 .. Len(mine) |->
         [type |-> "update-state", gravity |-> mine[k].gravity,
          neighbors |-> mine[k].neighbors]]

\* The state loop with its messages: a message to a closed port is lost.
\* (The loop waits while a port has MaxInbox messages unhandled.)
WebTick ==
  /\ variant = "worker"
  /\ \A id \in Tabs : Len(inbox[id]) < MaxInbox
  /\ updates' = WorkerTickSends(connections)
  /\ inbox' = [id \in Ids |->
                 IF id \in Tabs THEN inbox[id] \o Posted(updates', id)
                 ELSE inbox[id]]
  /\ lastOp' = Op("tick", 0, NoMsg)
  /\ spawned' = << >> /\ threw' = FALSE
  /\ UNCHANGED << variant, workerVars, nativeVars, received,
                  particles, neighbors, globalGravity, outbox, nextPid >>

\* Mutant of Delivered: the spawn-particle goes to every client, not to the
\* one the loop stopped at.
DeliveredBroadcast(sends, id, from, msg) ==
  [k \in 1 .. Len(sends) |->
     [type |-> "spawn-particle", pid |-> msg.pid, from |-> from,
      payload |-> [f \in DOMAIN sends[k] \ {"to"} |-> sends[k][f]]]]

\* What handleParticleExit posts to the port of client id, for the exit msg
\* of client from.
Delivered(sends, id, from, msg) ==
  LET mine == SelectSeq(sends, LAMBDA m : m.to = id)
  IN  [k \in 1 .. Len(mine) |->
         [type |-> "spawn-particle", pid |-> msg.pid, from |-> from,
          payload |-> [f \in DOMAIN mine[k] \ {"to"} |-> mine[k][f]]]]

\* port.onmessage of the worker for the particle-exit at the head of what
\* tab id posted.
WebParticleExit(id) ==
  /\ variant = "worker"
  /\ id \in 1 .. nextId - 1
  /\ outbox[id] # << >>
  /\ spawned' = HandleParticleExit(connections, id, Head(outbox[id]).payload)
  /\ inbox' = [to \in Ids |->
                 IF to \in Tabs
                   THEN inbox[to] \o Delivered(spawned', to, id, Head(outbox[id]))
                   ELSE inbox[to]]
  /\ outbox' = [outbox EXCEPT ![id] = Tail(@)]
  /\ lastOp' = Op("particle-exit", id, Head(outbox[id]).payload)
  /\ updates' = << >> /\ threw' = FALSE
  /\ UNCHANGED << variant, workerVars, nativeVars, received,
                  particles, neighbors, globalGravity, nextPid >>

\* A tab opens (MaxTabs of them); the heartbeat a tab posts is handled.
WebConnect == nextId <= MaxTabs /\ WorkerConnect
WebHeartbeat(port) == port \in Tabs /\ WorkerHeartbeat(port, Screen[port])

(***************************************************************************)
(* Both coordinators side by side, each handed the same events: the        *)
(* outputs of a step are kept per coordinator.                             *)
(***************************************************************************)
Side(native, worker) == [native |-> native, worker |-> worker]

\* The clients that are connected.
Alive == (1 .. lastWinId) \ destroyed

\* A client connects: registerWindow for a window at the worker's initial
\* bounds, and self.onconnect.
BothConnect ==
  /\ variant = "both"
  /\ lastWinId < MaxClients
  /\ lastWinId' = lastWinId + 1
  /\ nextId' = nextId + 1
  /\ windows' = Append(Delete(windows, lastWinId + 1),
                       [id |-> lastWinId + 1, bounds |-> Placeholder])
  /\ connections' = Append(connections,
                           [id |-> nextId, port |-> nextId, bounds |-> Placeholder])
  /\ received' = Append(received, Placeholder)
  /\ lastOp' = Op("connect", nextId, NoMsg)
  /\ spawned' = Side(<< >>, << >>) /\ updates' = Side(<< >>, << >>)
  /\ threw' = FALSE
  /\ UNCHANGED << clientVars, variant, destroyed, closedPorts >>

\* A client reports bounds b: the move or resize listener, and the heartbeat
\* branch of onmessage.
BothReport(id, b) ==
  /\ variant = "both"
  /\ id \in Alive
  /\ windows' = IF Has(windows, id) THEN SetBounds(windows, id, b) ELSE windows
  /\ connections' = SetBounds(connections, id, b)
  /\ received' = [received EXCEPT ![id] = b]
  /\ lastOp' = Op("report", id, NoMsg)
  /\ spawned' = Side(<< >>, << >>) /\ updates' = Side(<< >>, << >>)
  /\ threw' = FALSE
  /\ UNCHANGED << clientVars, variant, lastWinId, nextId, destroyed, closedPorts >>

\* A client disconnects: the 'closed' listener; the worker has no handler.
BothDisconnect(id) ==
  /\ variant = "both"
  /\ id \in Alive
  /\ destroyed' = destroyed \cup {id}
  /\ closedPorts' = closedPorts \cup {id}
  /\ windows' = Delete(windows, id)
  /\ lastOp' = Op("disconnect", id, NoMsg)
  /\ spawned' = Side(<< >>, << >>) /\ updates' = Side(<< >>, << >>)
  /\ threw' = FALSE
  /\ UNCHANGED << clientVars, variant, lastWinId, nextId, connections, received >>

\* A client posts particle-exit m.
BothParticleExit(id, m) ==
  /\ variant = "both"
  /\ id \in Alive
  /\ spawned' = Side(NativeRoute(windows, id, m),
                     HandleParticleExit(connections, id, m))
  /\ lastOp' = Op("particle-exit", id, m)
  /\ updates' = Side(<< >>, << >>)
  /\ threw' = FALSE
  /\ UNCHANGED << clientVars, variant, nativeVars, workerVars, received >>

\* Both state loops run.
BothTick ==
  /\ variant = "both"
  /\ updates' = Side(NativeTickSends(windows), WorkerTickSends(connections))
  /\ lastOp' = Op("tick", 0, NoMsg)
  /\ spawned' = Side(<< >>, << >>)
  /\ threw' = FALSE
  /\ UNCHANGED << clientVars, variant, nativeVars, workerVars, received >>

InitBoth ==
  /\ variant = "both"
  /\ Constructed

NextBoth ==
  \/ BothConnect
  \/ \E id \in Ids, b \in Rects : BothReport(id, b)
  \/ \E id \in Ids : BothDisconnect(id)
  \/ \E id \in Ids, m \in Exits : BothParticleExit(id, m)
  \/ BothTick

SpecBoth == InitBoth /\ [][NextBoth]_vars

Emits == {"none", "flow", "halo"}

NextWeb ==
  \/ WebConnect
  \/ \E port \in Ids : WebHeartbeat(port)
  \/ WebTick
  \/ \E id \in Ids : WebParticleExit(id)
  \/ \E id \in Ids : ClientOnMessage(id)
  \/ \E id \in Ids, emit \in Emits :
       \E plan \in [1 .. (Len(particles[id]) + IF emit = "none" THEN 0 ELSE 1) -> Steps] :
          Animate(id, emit, plan)

SpecWeb == InitWorker /\ [][NextWeb]_vars

(***************************************************************************)
(* The desktop client (renderer.js) of every window, and the main process  *)
(* with the IPC messages between them.                                     *)
(***************************************************************************)
\* createWindow, MaxTabs of them: window id opens at Screen[id].
DeskOpen == lastWinId < MaxTabs /\ NativeRegisterWindow(Screen[lastWinId + 1])

\* Window id closes: the 'closed' listener runs, and the renderer process
\* goes with what it held and what was under way to it.  What it sent is
\* still under way to the main process.
DeskClosed(id) ==
  /\ variant = "native"
  /\ id \in Alive
  /\ destroyed' = destroyed \cup {id}
  /\ windows' = Delete(windows, id)
  /\ particles' = [particles EXCEPT ![id] = << >>]
  /\ neighbors' = [neighbors EXCEPT ![id] = << >>]
  /\ globalGravity' = [globalGravity EXCEPT ![id] = [x |-> Num(0), y |-> Num(0)]]
  /\ inbox' = [inbox EXCEPT ![id] = << >>]
  /\ lastOp' = Op("closed", id, [deleted |-> Has(windows, id)])
  /\ spawned' = << >> /\ updates' = << >> /\ threw' = FALSE
  /\ UNCHANGED << variant, lastWinId, received, workerVars, outbox, nextPid >>

\* animate() of renderer.js: ball.update() pushes a new particle, a 'flow'
\* one also when there are no neighbours (a solar flare); then every
\* particle of the array is updated, last to first.
RendererAnimate(id, emit, plan) ==
  /\ variant = "native"
  /\ id \in Alive
  /\ emit # "none" => nextPid <= MaxPid
  /\ LET emitted == IF emit = "none" THEN particles[id]
                    ELSE Append(particles[id], NewParticle(nextPid, emit, id))
         frame == AnimateFrom(emitted, Len(emitted), plan, neighbors[id], << >>)
     IN  /\ DOMAIN plan = 1 .. Len(emitted)
         /\ particles' = [particles EXCEPT ![id] = frame.particles]
         /\ outbox' = [outbox EXCEPT ![id] = outbox[id] \o frame.posted]
  /\ nextPid' = IF emit = "none" THEN nextPid ELSE nextPid + 1
  /\ lastOp' = Op("animate", id, [emit |-> emit, plan |-> plan])
  /\ spawned' = << >> /\ updates' = << >> /\ threw' = FALSE
  /\ UNCHANGED << variant, workerVars, nativeVars, received,
                  neighbors, globalGravity, inbox >>

\* ipcRenderer.on('update-state') and ipcRenderer.on('spawn-particle') of
\* window id, for the message at the head of its channel.
RendererOnMessage(id) ==
  /\ variant = "native"
  /\ id \in Alive
  /\ inbox[id] # << >>
  /\ LET data == Head(inbox[id])
     IN  /\ IF data.type = "update-state"
              THEN /\ globalGravity' = [globalGravity EXCEPT ![id] = data.gravity]
                   /\ neighbors' = [neighbors EXCEPT ![id] = data.neighbors]
                   /\ UNCHANGED particles
              ELSE /\ particles' =
                        [particles EXCEPT
                           ![id] = Append(@, SpawnedParticle(data.pid, data.payload, id))]
                   /\ UNCHANGED << globalGravity, neighbors >>
         /\ lastOp' = Op("onmessage", id, [type |-> data.type])
  /\ inbox' = [inbox EXCEPT ![id] = Tail(@)]
  /\ spawned' = << >> /\ updates' = << >> /\ threw' = FALSE
  /\ UNCHANGED << variant, workerVars, nativeVars, received, outbox, nextPid >>

\* The native state loop with its messages.  (The loop waits while a window
\* has MaxInbox messages unhandled.)
DeskTick ==
  /\ variant = "native"
  /\ \A id \in Alive : Len(inbox[id]) < MaxInbox
  /\ updates' = NativeTickSends(windows)
  /\ inbox' = [id \in Ids |->
                 IF id \in Alive THEN inbox[id] \o Posted(updates', id)
                 ELSE inbox[id]]
  /\ lastOp' = Op("tick", 0, NoMsg)
  /\ spawned' = << >> /\ threw' = FALSE
  /\ UNCHANGED << variant, workerVars, nativeVars, received,
                  particles, neighbors, globalGravity, outbox, nextPid >>

\* ipcMain.on('particle-exit') for the message at the head of what window id
\* sent.
DeskParticleExit(id) ==
  /\ variant = "native"
  /\ id \in 1 .. lastWinId
  /\ outbox[id] # << >>
  /\ spawned' = NativeRoute(windows, id, Head(outbox[id]).payload)
  /\ threw' = (\E i \in 1 .. Len(spawned') : spawned'[i].to \in destroyed)
  /\ inbox' = [to \in Ids |->
                 IF to \in Alive
                   THEN inbox[to] \o Delivered(spawned', to, id, Head(outbox[id]))
                   ELSE inbox[to]]
  /\ outbox' = [outbox EXCEPT ![id] = Tail(@)]
  /\ lastOp' = Op("particle-exit", id, Head(outbox[id]).payload)
  /\ updates' = << >>
  /\ UNCHANGED << variant, workerVars, nativeVars, received,
                  particles, neighbors, globalGravity, nextPid >>

NextDesk ==
  \/ DeskOpen
  \/ \E id \in Ids : DeskClosed(id)
  \/ DeskTick
  \/ \E id \in Ids : DeskParticleExit(id)
  \/ \E id \in Ids : RendererOnMessage(id)
  \/ \E id \in Ids, emit \in Emits :
       \E plan \in [1 .. (Len(particles[id]) + IF emit = "none" THEN 0 ELSE 1) -> Steps] :
          RendererAnimate(id, emit, plan)

SpecDesk == InitNative /\ [][NextDesk]_vars

\* Either client with its coordinator.
NextClients == NextWeb \/ NextDesk

SpecClients == Init /\ [][NextClients]_vars

(***************************************************************************)
(* Vocabulary of the properties.                                           *)
(***************************************************************************)
Routed == lastOp.op = "particle-exit"
Ticked == lastOp.op = "tick"

\* The sender's entry and the absolute exit point of the particle-exit
\* handled last (the handler leaves the registry as it found it).
Sender == Get(Registry, lastOp.id)
ExitPoint ==
  [x |-> Sender.bounds.x + lastOp.msg.x, y |-> Sender.bounds.y + lastOp.msg.y]

Inside(P, b) ==
  /\ P.x \in b.x .. (b.x + b.width)
  /\ P.y \in b.y .. (b.y + b.height)

\* Positions in the registry of the clients, other than the sender, whose
\* rectangle holds the exit point.
Candidates ==
  {i \in 1 .. Len(Registry) :
     Registry[i].id # lastOp.id /\ Inside(ExitPoint, Registry[i].bounds)}

\* The same for a particle-exit m of sender id about to be handled over reg.
CandidatesFor(reg, id, m) ==
  {i \in 1 .. Len(reg) :
     /\ reg[i].id # id
     /\ Inside([x |-> Get(reg, id).bounds.x + m.x,
                y |-> Get(reg, id).bounds.y + m.y], reg[i].bounds)}

\* A step sends no spawn-particle, raises nothing and leaves the registry.
SilentDrop ==
  /\ spawned' = << >>
  /\ threw' = FALSE
  /\ windows' = windows
  /\ connections' = connections

First(S) == CHOOSE i \in S : \A j \in S : i <= j

(***************************************************************************)
(* C1.  A particle-exit from a registered sender is delivered to the       *)
(* first client in registry order, other than the sender, whose rectangle  *)
(* contains the absolute exit point (bounds inclusive); never to the       *)
(* sender; the earliest-registered of several.                             *)
(***************************************************************************)
C1_FirstContaining ==
  (Routed /\ Has(Registry, lastOp.id) /\ Candidates # {}) =>
     /\ Len(spawned) = 1
     /\ spawned[1].to = Registry[First(Candidates)].id
     /\ spawned[1].to # lastOp.id

\* Two clients hold the point, the sender's own rectangle holds it too, and
\* the earlier of the two got the particle.
C1_Witness ==
  /\ Routed /\ Has(Registry, lastOp.id)
  /\ Cardinality(Candidates) >= 2
  /\ Inside(ExitPoint, Sender.bounds)
  /\ Len(spawned) = 1
  /\ spawned[1].to = Registry[First(Candidates)].id

(***************************************************************************)
(* C2.  A delivered spawn-particle carries the coordinates                 *)
(* (senderRect.x + localX - destRect.x, senderRect.y + localY - destRect.y)*)
(* and the velocity of the particle-exit; with A at {0,0,800,600} and B at *)
(* {800,0,800,600}, an exit from A at (800,300) with velocity (5,0)        *)
(* arrives at B at (0,300) with velocity (5,0).                            *)
(***************************************************************************)
ScenarioAB ==
  /\ Routed /\ Has(Registry, lastOp.id)
  /\ Len(Registry) = 2
  /\ Sender.bounds = Rect(0, 0, 800, 600)
  /\ \E i \in 1 .. 2 :
       Registry[i].id # lastOp.id /\ Registry[i].bounds = Rect(800, 0, 800, 600)
  /\ lastOp.msg.x = 800 /\ lastOp.msg.y = 300
  /\ lastOp.msg.vx = 5 /\ lastOp.msg.vy = 0

C2_Translated ==
  /\ \A i \in 1 .. Len(spawned) :
       LET dest == Get(Registry, spawned[i].to).bounds
       IN  /\ spawned[i].x = Sender.bounds.x + lastOp.msg.x - dest.x
           /\ spawned[i].y = Sender.bounds.y + lastOp.msg.y - dest.y
           /\ spawned[i].vx = lastOp.msg.vx
           /\ spawned[i].vy = lastOp.msg.vy
  /\ ScenarioAB =>
       /\ Len(spawned) = 1
       /\ spawned[1].to # lastOp.id
       /\ spawned[1].x = 0 /\ spawned[1].y = 300
       /\ spawned[1].vx = 5 /\ spawned[1].vy = 0

\* The scenario happened.
C2_Witness ==
  /\ ScenarioAB
  /\ Len(spawned) = 1

(***************************************************************************)
(* C3.  In both variants the cosmetic metadata of a particle-exit          *)
(* (behavior tag, phase offset, colour hue) appears in the delivered       *)
(* spawn-particle with the values the sender gave.  The worker's           *)
(* handleParticleExit drops the three fields, so this fails there.         *)
(***************************************************************************)
C3_MetadataForwarded ==
  \A i \in 1 .. Len(spawned) :
     /\ {"behavior", "offset", "hue"} \subseteq DOMAIN spawned[i]
     /\ spawned[i].behavior = lastOp.msg.behavior
     /\ spawned[i].offset = lastOp.msg.offset
     /\ spawned[i].hue = lastOp.msg.hue

\* The native handler alone does forward them.
C3_NativeForwards == (variant = "native") => C3_MetadataForwarded

(***************************************************************************)
(* C4.  In every update-state of every tick both components of the         *)
(* gravity vector are finite, also with coincident centres, and the        *)
(* contribution of two clients whose centres are closer than 100 has       *)
(* magnitude exactly 50.  The state loop divides by dist = 0 for           *)
(* coincident centres, so this fails.                                      *)
(***************************************************************************)
\* Twice the centre-to-centre displacement from a to b, in integers.
Dx2(a, b) == (2 * b.x + b.width) - (2 * a.x + a.width)
Dy2(a, b) == (2 * b.y + b.height) - (2 * a.y + a.height)
\* Four times the squared distance of the centres.
DistSq4(a, b) == Dx2(a, b) * Dx2(a, b) + Dy2(a, b) * Dy2(a, b)

\* The vector (fx, fy) is finite and has length m (m a positive rational).
HasMagnitude(fx, fy, m) ==
  /\ IsFinite(fx) /\ IsFinite(fy)
  /\ Add(Mul(Div(fx, m), Div(fx, m)), Mul(Div(fy, m), Div(fy, m))) = Num(1)

GravityFinite ==
  \A i \in 1 .. Len(updates) :
     IsFinite(updates[i].gravity.x) /\ IsFinite(updates[i].gravity.y)

C4_FiniteAndFloored ==
  Ticked =>
    /\ GravityFinite
    /\ \A i, j \in 1 .. Len(Registry) :
         (i # j /\ DistSq4(Registry[i].bounds, Registry[j].bounds) < 4 * 100 * 100)
           => HasMagnitude(Pair(Registry[i], Registry[j]).fx,
                           Pair(Registry[i], Registry[j]).fy, Num(50))

\* What does hold: apart from coincident centres the floor gives 50, and a
\* tick over pairwise distinct centres sends finite vectors only.
C4_FlooredWhenApart ==
  Ticked =>
    \A i, j \in 1 .. Len(Registry) :
       (/\ i # j
        /\ DistSq4(Registry[i].bounds, Registry[j].bounds) < 4 * 100 * 100
        /\ DistSq4(Registry[i].bounds, Registry[j].bounds) > 0)
         => HasMagnitude(Pair(Registry[i], Registry[j]).fx,
                         Pair(Registry[i], Registry[j]).fy, Num(50))

C4_FiniteWhenApart ==
  (Ticked /\ \A i, j \in 1 .. Len(Registry) :
               i # j => DistSq4(Registry[i].bounds, Registry[j].bounds) > 0)
    => GravityFinite

(***************************************************************************)
(* C5.  After a client disconnects (window or tab closed) its session is   *)
(* out of the registry: no later update-state lists it as a neighbour and  *)
(* no later particle-exit is routed to it.  The worker never removes a     *)
(* connection, so this fails there.                                        *)
(***************************************************************************)
\* The clients that have disconnected.
Gone == IF variant = "native" THEN destroyed ELSE closedPorts

C5_RemovedAfterDisconnect ==
  \A id \in Gone :
     /\ ~Has(Registry, id)
     /\ \A i \in 1 .. Len(updates) :
          \A k \in 1 .. Len(updates[i].neighbors) :
             updates[i].neighbors[k].id # id
     /\ \A i \in 1 .. Len(spawned) : spawned[i].to # id

\* The native 'closed' listener does remove the window.
C5_NativeRemoves == (variant = "native") => C5_RemovedAfterDisconnect

(***************************************************************************)
(* C6.  After any sequence of register, unregister and bounds-update       *)
(* operations the registry holds exactly the ids registered and not yet    *)
(* unregistered, each once, each with the last rectangle the coordinator   *)
(* was handed for it (its initial one if none followed).                   *)
(***************************************************************************)
Registered == IF variant = "native" THEN 1 .. lastWinId ELSE 1 .. (nextId - 1)
\* Only the native coordinator has an unregister operation.
Unregistered == IF variant = "native" THEN destroyed ELSE {}

C6_RegistryExact ==
  /\ IdsOf(Registry) = Registered \ Unregistered
  /\ Len(Registry) = Cardinality(IdsOf(Registry))
  /\ \A i \in 1 .. Len(Registry) : Registry[i].bounds = received[Registry[i].id]

\* One client was unregistered, and of the two that remain one has had its
\* bounds replaced and the other still has those it registered with.
C6_Witness ==
  /\ Unregistered # {}
  /\ Len(Registry) = 2
  /\ lastOp.op \in {"move", "resize", "heartbeat"}
  /\ Has(Registry, lastOp.id)
  /\ Get(Registry, lastOp.id).bounds = Rect(248, 186, 400, 300)

(***************************************************************************)
(* C7.  With two live clients A and B in one tick, the forces reported to  *)
(* A and to B are equal in magnitude and opposite in direction; when the   *)
(* centre distance D is at least 100 the magnitude is 500000 / D^2 and     *)
(* A's force points from A's centre to B's (centres (400,300) and          *)
(* (1600,300): along +x, y component zero).  With coincident centres both  *)
(* forces are NaN (see C4), so this fails.                                 *)
(***************************************************************************)
\* a is a sum of positive multiples of square roots.
Positive(a) ==
  IsFinite(a) /\ DOMAIN a.t # {} /\ \A r \in DOMAIN a.t : a.t[r].n > 0

\* The vector (fx, fy) points the way of the non-zero integer vector (dx, dy).
PointsAlong(fx, fy, dx, dy) ==
  /\ Sub(Mul(fx, Num(dy)), Mul(fy, Num(dx))) = Num(0)
  /\ Positive(Add(Mul(fx, Num(dx)), Mul(fy, Num(dy))))

PairForces(A, B, gA, gB) ==
  /\ IsFinite(gA.x) /\ IsFinite(gA.y) /\ IsFinite(gB.x) /\ IsFinite(gB.y)
  /\ gB.x = Neg(gA.x) /\ gB.y = Neg(gA.y)
  /\ DistSq4(A, B) >= 4 * 100 * 100 =>
       /\ HasMagnitude(gA.x, gA.y, Frac(4 * 500000, DistSq4(A, B)))
       /\ PointsAlong(gA.x, gA.y, Dx2(A, B), Dy2(A, B))
  /\ (Dx2(A, B) = 2 * 1200 /\ Dy2(A, B) = 0) =>
       (gA.x = Frac(500000, 1440000) /\ gA.y = Num(0))

C7_EqualAndOpposite ==
  (Ticked /\ Len(Registry) = 2 /\ Len(updates) = 2) =>
     PairForces(Registry[1].bounds, Registry[2].bounds,
                updates[1].gravity, updates[2].gravity)

\* What does hold: the same for two clients whose centres differ.
C7_WhenApart ==
  (/\ Ticked /\ Len(Registry) = 2 /\ Len(updates) = 2
   /\ DistSq4(Registry[1].bounds, Registry[2].bounds) > 0) =>
     PairForces(Registry[1].bounds, Registry[2].bounds,
                updates[1].gravity, updates[2].gravity)

(***************************************************************************)
(* C8.  On every tick each client of the registry is sent one update-state *)
(* whose neighbour list has exactly one entry for every other client of    *)
(* the registry and none for itself, in registry order, each with the      *)
(* target's id and the centre-to-centre displacement from source to target.*)
(***************************************************************************)
Others(id) == SelectSeq(Registry, LAMBDA e : e.id # id)

C8_NeighborLists ==
  Ticked =>
    /\ Len(updates) = Len(Registry)
    /\ \A i \in 1 .. Len(updates) :
         LET u == updates[i]
             src == Registry[i]
             others == Others(src.id)
         IN  /\ u.to = src.id
             /\ Len(u.neighbors) = Len(others)
             /\ \A k \in 1 .. Len(u.neighbors) :
                  /\ u.neighbors[k].id = others[k].id
                  /\ u.neighbors[k].id # u.to
                  /\ u.neighbors[k].dx = Frac(Dx2(src.bounds, others[k].bounds), 2)
                  /\ u.neighbors[k].dy = Frac(Dy2(src.bounds, others[k].bounds), 2)

\* A tick over three clients, two of them displaced in both coordinates.
C8_Witness ==
  /\ Ticked
  /\ Len(updates) = 3
  /\ Len(updates[2].neighbors) = 2
  /\ \E k \in 1 .. 2 :
       ~IsZero(updates[2].neighbors[k].dx) /\ ~IsZero(updates[2].neighbors[k].dy)

C10_UnknownSender ==
  [][ (lastOp'.op = "particle-exit" /\ ~Has(Registry, lastOp'.id))
        => SilentDrop ]_vars

\* The sender had closed, and a client still registered holds the point the
\* exit would have had from the sender's last bounds.
C10_Witness ==
  /\ Routed /\ ~Has(Registry, lastOp.id)
  /\ \E i \in 1 .. Len(Registry) :
       Inside([x |-> received[lastOp.id].x + lastOp.msg.x,
               y |-> received[lastOp.id].y + lastOp.msg.y], Registry[i].bounds)
  /\ spawned = << >>

(***************************************************************************)
(* C11.  A second close notification for a client that was unregistered    *)
(* before (unregistering the same id twice) raises no error and leaves the *)
(* registry as the first unregister left it: the other sessions and their  *)
(* bounds are untouched.                                                   *)
(***************************************************************************)
C11_IdempotentUnregister ==
  [][ (lastOp'.op = "closed" /\ lastOp'.id \in Unregistered)
        => /\ Registry' = Registry
           /\ received' = received
           /\ Unregistered' = Unregistered
           /\ threw' = FALSE ]_vars

\* The listener ran for a window that was no longer in the Map, with two
\* other windows registered, one of them moved since.
C11_Witness ==
  /\ lastOp.op = "closed" /\ ~lastOp.msg.deleted
  /\ Len(Registry) = 2
  /\ \E i \in 1 .. 2 : Registry[i].bounds = Rect(248, 186, 400, 300)

(***************************************************************************)
(* C12.  No two live sessions have the same id, a session keeps its id     *)
(* for as long as it lives, and a client that connects (also after a       *)
(* disconnect) gets an id that no earlier session held.                    *)
(***************************************************************************)
UniqueIds(list) ==
  \A i, j \in 1 .. Len(list) : list[i].id = list[j].id => i = j

\* The ids of the registry, in its order.
IdList(list) == [i \in 1 .. Len(list) |-> list[i].id]

C12_IdsUniqueAndFresh ==
  [][ /\ UniqueIds(Registry')
      \* the sessions that stay keep their ids, and a port keeps its id
      /\ IdList(SelectSeq(Registry', LAMBDA e : e.id \in IdsOf(Registry)))
           = IdList(SelectSeq(Registry, LAMBDA e : e.id \in IdsOf(Registry')))
      /\ \A i \in 1 .. Len(connections) : \A j \in 1 .. Len(connections') :
           connections'[j].port = connections[i].port
             => connections'[j].id = connections[i].id
      \* an id enters the registry with a new session only, and is new
      /\ IdsOf(Registry') \ IdsOf(Registry) =
           IF lastOp'.op \in {"register", "connect"} THEN {lastOp'.id} ELSE {}
      /\ lastOp'.op \in {"register", "connect"} => lastOp'.id \notin Registered
    ]_vars

\* A client connected after another had disconnected, with a session older
\* than both still live.
C12_Witness ==
  /\ lastOp.op \in {"register", "connect"}
  /\ Gone # {} /\ lastOp.id \notin Gone
  /\ \E i \in 1 .. Len(Registry) :
       Registry[i].id \notin Gone /\ Registry[i].id < lastOp.id
  /\ \A g \in Gone : g < lastOp.id

(***************************************************************************)
(* C13.  The stored bounds of a client change only while the coordinator   *)
(* handles a heartbeat of that client (worker) or a move or resize of that *)
(* window (native).  Such a step changes no other session's bounds, no id  *)
(* and no membership, and ticks and routings leave all bounds as they are: *)
(* a client that reports nothing more keeps its bounds until it            *)
(* disconnects.                                                            *)
(***************************************************************************)
Reports == {"move", "resize", "heartbeat"}

C13_BoundsFrame ==
  [][ /\ \A i \in 1 .. Len(Registry) :
           (/\ Has(Registry', Registry[i].id)
            /\ Get(Registry', Registry[i].id).bounds # Registry[i].bounds)
             => (lastOp'.op \in Reports /\ lastOp'.id = Registry[i].id)
      /\ lastOp'.op \in Reports => IdList(Registry') = IdList(Registry)
      /\ lastOp'.op \in {"tick", "particle-exit"} => Registry' = Registry
    ]_vars

\* A report replaced the bounds of one of three clients; the other two have
\* different bounds from it and from each other.
C13_Witness ==
  /\ lastOp.op \in Reports
  /\ Len(Registry) = 3 /\ Has(Registry, lastOp.id)
  /\ Get(Registry, lastOp.id).bounds = Rect(248, 186, 400, 300)
  /\ \A i, j \in 1 .. 3 : Registry[i].bounds = Registry[j].bounds => i = j

(***************************************************************************)
(* C14.  However connects, bounds reports, closes and particle-exits are   *)
(* interleaved with the tick, every tick and every routing reads one       *)
(* registry state.  (Each handler and the timer callback run to completion *)
(* on one thread, so the interleaving is of whole handlers.)  Of one tick, *)
(* every update-state is over the same sessions, those of the registry,    *)
(* and over the same bounds of each: what A is told about B is the         *)
(* opposite of what B is told about A, and what A and B are told about a   *)
(* third client C differ by the displacement from A to B.  A routing       *)
(* looks the sender up and searches the destination in the same registry.  *)
(***************************************************************************)
\* The neighbour entry for id in update-state u.
EntryFor(u, id) ==
  u.neighbors[CHOOSE k \in 1 .. Len(u.neighbors) : u.neighbors[k].id = id]

Listed(u) == {u.neighbors[k].id : k \in 1 .. Len(u.neighbors)}

C14_OneSnapshot ==
  /\ Ticked =>
       \A i, j \in 1 .. Len(updates) :
          LET ui == updates[i]
              uj == updates[j]
          IN  /\ Listed(ui) \cup {ui.to} = IdsOf(Registry)
              /\ i # j =>
                   /\ EntryFor(uj, ui.to).dx = Neg(EntryFor(ui, uj.to).dx)
                   /\ EntryFor(uj, ui.to).dy = Neg(EntryFor(ui, uj.to).dy)
                   /\ EntryFor(uj, ui.to).dist = EntryFor(ui, uj.to).dist
                   /\ \A c \in Listed(ui) \cap Listed(uj) :
                        /\ Sub(EntryFor(ui, c).dx, EntryFor(uj, c).dx)
                             = EntryFor(ui, uj.to).dx
                        /\ Sub(EntryFor(ui, c).dy, EntryFor(uj, c).dy)
                             = EntryFor(ui, uj.to).dy
  /\ (Routed /\ spawned # << >>) =>
       /\ Has(Registry, lastOp.id)
       /\ \A i \in 1 .. Len(spawned) :
            /\ Has(Registry, spawned[i].to)
            /\ Inside(ExitPoint, Get(Registry, spawned[i].to).bounds)
            /\ spawned[i].x + Get(Registry, spawned[i].to).bounds.x = ExitPoint.x
            /\ spawned[i].y + Get(Registry, spawned[i].to).bounds.y = ExitPoint.y

\* A tick over three clients at three different places, after one of them
\* reported new bounds.
C14_Witness ==
  /\ Ticked
  /\ Len(updates) = 3
  /\ \A i, j \in 1 .. 3 : Registry[i].bounds = Registry[j].bounds => i = j
  /\ \E i \in 1 .. 3 : Registry[i].bounds = Rect(248, 186, 400, 300)
  /\ \E i \in 1 .. 3 : Registry[i].bounds.x = 1200

(***************************************************************************)
(* C15.  When a tick runs while a client whose channel is no longer valid  *)
(* (its window destroyed, its tab closed) is still in the registry, the    *)
(* tick raises no error and every other client of the registry is still    *)
(* sent its update-state in that tick.                                     *)
(***************************************************************************)
\* The sessions of the registry whose channel is gone.
Invalid == IdsOf(Registry) \cap Gone

SentTo(id) == {i \in 1 .. Len(updates) : updates[i].to = id}

WellDefined(b) ==
  /\ DOMAIN b = {"x", "y", "width", "height"}
  /\ b.x \in Int /\ b.y \in Int
  /\ b.width \in Nat \ {0} /\ b.height \in Nat \ {0}

C16_IncludedAtOnce ==
  [][ /\ \A i \in 1 .. Len(Registry') : WellDefined(Registry'[i].bounds)
      /\ (lastOp.op \in {"register", "connect"} /\ lastOp'.op = "tick") =>
           /\ Has(Registry, lastOp.id)
           /\ \E i \in 1 .. Len(updates') : updates'[i].to = lastOp.id
           /\ \A i \in 1 .. Len(updates') :
                updates'[i].to # lastOp.id => lastOp.id \in Listed(updates'[i])
           /\ \A id \in IdsOf(Registry) \ {lastOp.id} :
                \E i \in 1 .. Len(updates') : updates'[i].to = id
    ]_vars

\* A tick over three clients: the one registered last has the bounds it was
\* registered with, an earlier one is elsewhere, and it got its update-state
\* and is listed in the other two.
C16_Witness ==
  /\ Ticked
  /\ Len(Registry) = 3 /\ Len(updates) = 3
  /\ Registry[3].id = Cardinality(Registered)
  /\ Registry[3].bounds.width = 800
  /\ Registry[1].bounds = Rect(248, 186, 400, 300)
  /\ updates[3].to = Registry[3].id
  /\ Registry[3].id \in Listed(updates[1]) \cap Listed(updates[2])

(***************************************************************************)
(* C17.  A particle for which a client posts particle-exit leaves the      *)
(* client's particles array in the animation step that posts it, whether   *)
(* or not the worker then finds a destination.  The client posts no second *)
(* exit for it, and when the routing fails nothing comes back: a particle  *)
(* enters an array only as a new one of that client or by a spawn-particle *)
(* that another client's exit caused.                                      *)
(***************************************************************************)
PidsIn(list) == {list[i].pid : i \in 1 .. Len(list)}

\* The particles with a message under way.
PidsPosted ==
  UNION {PidsIn(outbox[id]) : id \in Ids}
    \cup UNION {PidsIn(SelectSeq(inbox[id], LAMBDA d : d.type = "spawn-particle")) :
                  id \in Ids}

C17_FireAndForget ==
  [][ \A id \in Ids :
        /\ \A k \in (Len(outbox[id]) + 1) .. Len(outbox'[id]) :
             /\ lastOp'.op = "animate" /\ lastOp'.id = id
             /\ outbox'[id][k].pid \in PidsIn(particles[id]) \cup {nextPid}
             /\ outbox'[id][k].pid \notin PidsIn(particles'[id])
             /\ outbox'[id][k].pid \notin PidsPosted
        /\ \A pid \in PidsIn(particles'[id]) \ PidsIn(particles[id]) :
             \/ lastOp'.op = "animate" /\ lastOp'.id = id /\ pid = nextPid
             \/ /\ lastOp'.op = "onmessage" /\ lastOp'.id = id
                /\ Head(inbox[id]).type = "spawn-particle"
                /\ Head(inbox[id]).pid = pid
                /\ Head(inbox[id]).from # id
        /\ (lastOp'.op = "particle-exit" /\ spawned' = << >>) =>
             (inbox' = inbox /\ particles' = particles)
    ]_vars

\* The worker found no destination for a particle-exit of a client among
\* two: that particle is in no array and no message, and the client still
\* animates the other particle it made.
C17_Witness ==
  /\ lastOp.op = "particle-exit" /\ spawned = << >>
  /\ Len(connections) = 2
  /\ nextPid = 3
  /\ Len(particles[lastOp.id]) = 1
  /\ particles[lastOp.id][1].behavior = "flow"
  /\ PidsPosted = {}
  /\ \A id \in Ids : id # lastOp.id => particles[id] = << >>

(***************************************************************************)
(* C18.  The native coordinator and the worker are equivalent: handed the  *)
(* same connects, bounds reports, disconnects, particle-exits and ticks,   *)
(* from equal initial bounds, they hold the same registry after every step *)
(* and send the same update-state and spawn-particle messages to the same  *)
(* clients.  The worker forwards no metadata (C3) and never unregisters    *)
(* (C5), so this fails.                                                    *)
(***************************************************************************)
\* What a registry holds: ids and bounds, in order.
Entries(list) ==
  [i \in 1 .. Len(list) |-> [id |-> list[i].id, bounds |-> list[i].bounds]]

C18_Equivalent ==
  /\ Entries(windows) = Entries(connections)
  /\ lastOp.op # "init" =>
       /\ spawned.native = spawned.worker
       /\ updates.native = updates.worker

\* A spawn-particle without the three fields the worker drops.
Core(sends) ==
  [i \in 1 .. Len(sends) |->
     [f \in {"to", "x", "y", "vx", "vy"} |-> sends[i][f]]]

\* What does hold: until a client disconnects the registries and the
\* update-states are the same, and the spawn-particles are but for the
\* metadata.
C18_EquivalentWhileConnected ==
  (destroyed = {} /\ lastOp.op # "init") =>
     /\ Entries(windows) = Entries(connections)
     /\ Core(spawned.native) = Core(spawned.worker)
     /\ updates.native = updates.worker

(***************************************************************************)
(* C19.  With the tick running on: once the coordinator has been handed    *)
(* new bounds for a client A, a tick follows, and the update-state of a    *)
(* tick to every other client of the registry has the neighbour entry for  *)
(* A computed from the bounds the coordinator was handed last for A: from  *)
(* the new ones, unless A's bounds changed again or A left the registry.   *)
(* No update-state has an entry computed from older bounds.                *)
(***************************************************************************)
\* Entry e of the update-state to the client at bounds src is the
\* displacement to a client at bounds b.
ComputedFrom(e, src, b) ==
  /\ e.dx = Frac(Dx2(src, b), 2)
  /\ e.dy = Frac(Dy2(src, b), 2)

\* The last tick told every other client of the registry of A at b.
ToldOf(A, b) ==
  /\ Ticked
  /\ \A i \in 1 .. Len(Registry) :
       Registry[i].id # A =>
          \E k \in 1 .. Len(updates) :
             /\ updates[k].to = Registry[i].id
             /\ A \in Listed(updates[k])
             /\ ComputedFrom(EntryFor(updates[k], A), Registry[i].bounds, b)

\* New bounds of a client of the registry were handled just now.
HandedNow == lastOp.op \in Reports /\ Has(Registry, lastOp.id)

\* The last tick told every client of every other, each at the bounds the
\* coordinator was handed last for it.
ToldOfAll == \A A \in IdsOf(Registry) : ToldOf(A, received[A])

OnlyLatestBounds ==
  Ticked =>
    \A k \in 1 .. Len(updates) : \A n \in 1 .. Len(updates[k].neighbors) :
       LET e == updates[k].neighbors[n]
       IN  ComputedFrom(e, received[updates[k].to], received[e.id])

C19_EventuallyToldOfNewBounds ==
  /\ []OnlyLatestBounds
  /\ HandedNow ~> ToldOfAll

\* Client 2 of three was handed new bounds, and the tick told the other two
\* of them.
C19_Witness ==
  /\ Len(Registry) = 3
  /\ received[2] = Rect(248, 186, 400, 300)
  /\ received[1] # Rect(248, 186, 400, 300)
  /\ received[3] # Rect(248, 186, 400, 300)
  /\ ToldOf(2, Rect(248, 186, 400, 300))

(***************************************************************************)
(* C20.  Handling one particle-exit sends at most one spawn-particle, to   *)
(* one client, however many registered rectangles hold the absolute exit   *)
(* point; and it sends no update-state.                                    *)
(***************************************************************************)
C20_AtMostOneSpawn ==
  Routed =>
    /\ Len(spawned) <= 1
    /\ Cardinality({spawned[i].to : i \in 1 .. Len(spawned)}) <= 1
    /\ updates = << >>

\* The rectangles of both other clients of three hold the exit point, and
\* one spawn-particle went out.
C20_Witness ==
  /\ Routed /\ Has(Registry, lastOp.id)
  /\ Len(Registry) = 3
  /\ Cardinality(Candidates) = 2
  /\ Len(spawned) = 1

(***************************************************************************)
(* C21.  A tick over a registry of exactly one client sends that client    *)
(* one update-state, with gravity (0, 0) and an empty neighbour list.      *)
(***************************************************************************)
C21_AloneNoGravity ==
  (Ticked /\ Len(Registry) = 1) =>
     /\ Len(updates) = 1
     /\ updates[1].to = Registry[1].id
     /\ updates[1].gravity = [x |-> Num(0), y |-> Num(0)]
     /\ updates[1].neighbors = << >>

\* The tick ran over a registry that two of its three clients had left.
C21_Witness ==
  /\ Ticked
  /\ Len(Registry) = 1
  /\ Cardinality(Unregistered) = 2
  /\ Len(updates) = 1

(***************************************************************************)
(* C22.  The neighbour list of a client is the one of the update-state it  *)
(* handled last (empty before the first).  A frame posts a particle-exit   *)
(* only for a 'flow' particle that crossed the canvas boundary, and only   *)
(* when that list is not empty.  When the list is empty the frame posts    *)
(* nothing, and every 'flow' particle whose life has not run out in the    *)
(* frame is still in the array, put back on each boundary it crossed with  *)
(* that velocity component reversed.                                       *)
(***************************************************************************)
\* The particles a frame updates: the array and what ball.update() pushed.
InFrame(id, emit) ==
  IF emit = "none" THEN particles[id]
  ELSE Append(particles[id], NewParticle(nextPid, emit, id))

Crossed(move) ==
  \/ move.x < 0 \/ move.x > Canvas.width
  \/ move.y < 0 \/ move.y > Canvas.height

Clamp(v, max) == IF v < 0 THEN 0 ELSE IF v > max THEN max ELSE v

Bounced(p, move) ==
  [p EXCEPT
     !.x = Clamp(move.x, Canvas.width),
     !.y = Clamp(move.y, Canvas.height),
     !.vx = IF move.x < 0 \/ move.x > Canvas.width THEN -move.vx ELSE move.vx,
     !.vy = IF move.y < 0 \/ move.y > Canvas.height THEN -move.vy ELSE move.vy]

\* What a step added to the messages client id has posted.
NewlyPosted(id) == SubSeq(outbox'[id], Len(outbox[id]) + 1, Len(outbox'[id]))

FrameTransfers(id, emit, plan) ==
  /\ \A k \in 1 .. Len(NewlyPosted(id)) :
       /\ Len(neighbors[id]) > 0
       /\ \E i \in 1 .. Len(InFrame(id, emit)) :
            /\ InFrame(id, emit)[i].pid = NewlyPosted(id)[k].pid
            /\ InFrame(id, emit)[i].behavior = "flow"
            /\ Crossed(plan[i].move)
  /\ neighbors[id] = << >> =>
       /\ outbox' = outbox
       /\ \A i \in 1 .. Len(InFrame(id, emit)) :
            (InFrame(id, emit)[i].behavior = "flow" /\ ~plan[i].expires) =>
               \E j \in 1 .. Len(particles'[id]) :
                  particles'[id][j] = Bounced(InFrame(id, emit)[i], plan[i].move)

C23_LateReportIgnored ==
  [][ (lastOp'.op \in Reports /\ ~Has(Registry, lastOp'.id)) =>
         /\ threw' = FALSE
         /\ ~Has(Registry', lastOp'.id)
         /\ Registry' = Registry
         /\ received' = received
         /\ spawned' = << >> /\ updates' = << >>
    ]_vars

\* A move or resize came for a closed window while two others were open at
\* different bounds.
C23_Witness ==
  /\ lastOp.op \in Reports
  /\ lastOp.id \in Unregistered
  /\ ~threw
  /\ Len(Registry) = 2
  /\ Registry[1].bounds # Registry[2].bounds
  /\ received[lastOp.id] \notin {Registry[1].bounds, Registry[2].bounds}

(***************************************************************************)
(* C24.  A run of the state loop and the routing of a particle-exit leave  *)
(* the registry as it was, whatever they send: the same sessions in the    *)
(* same order, the same bounds of each, and no id handed out or withdrawn. *)
(***************************************************************************)
C24_TickAndRoutingReadOnly ==
  [][ lastOp'.op \in {"tick", "particle-exit"} =>
         /\ IdsOf(Registry') = IdsOf(Registry)
         /\ \A id \in IdsOf(Registry) :
              Get(Registry', id).bounds = Get(Registry, id).bounds
         /\ Entries(Registry') = Entries(Registry)
         /\ Registered' = Registered
         /\ Gone' = Gone
    ]_vars

\* A particle-exit was routed to one of three clients at different bounds,
\* one of them no longer valid.
C24_Witness ==
  /\ Routed
  /\ Len(spawned) = 1
  /\ Len(Registry) = 3
  /\ \A i, j \in 1 .. 3 : Registry[i].bounds = Registry[j].bounds => i = j
  /\ Invalid # {}

(***************************************************************************)
(* C25.  A transfer never duplicates a particle: in every reachable state  *)
(* a particle is in at most one place, the array of one client, one        *)
(* particle-exit under way or one spawn-particle under way; so the arrays  *)
(* and messages together never hold more particles than were emitted.      *)
(***************************************************************************)
\* In how many places of client id particle pid is.
PlacesAt(pid, id) ==
  Len(SelectSeq(particles[id], LAMBDA p : p.pid = pid))
    + Len(SelectSeq(outbox[id], LAMBDA m : m.pid = pid))
    + Len(SelectSeq(inbox[id],
                    LAMBDA d : d.type = "spawn-particle" /\ d.pid = pid))

RECURSIVE PlacesUpTo(_, _)
PlacesUpTo(pid, n) ==
  IF n = 0 THEN 0 ELSE PlacesUpTo(pid, n - 1) + PlacesAt(pid, n)

Places(pid) == PlacesUpTo(pid, MaxClients)

RECURSIVE HeldUpTo(_)
HeldUpTo(n) == IF n = 0 THEN 0 ELSE HeldUpTo(n - 1) + Len(particles[n])

C25_NeverDuplicated ==
  /\ \A pid \in 1 .. (nextPid - 1) : Places(pid) <= 1
  /\ \A id \in Ids :
       \A j \in 1 .. Len(particles[id]) :
          particles[id][j].pid \in 1 .. (nextPid - 1)
  /\ HeldUpTo(MaxClients) <= nextPid - 1

\* A client has just pushed the particle another client sent it, while the
\* second particle made is in an array too: each is in one place.
C25_Witness ==
  /\ lastOp.op = "onmessage" /\ lastOp.msg.type = "spawn-particle"
  /\ nextPid = 3
  /\ Places(1) = 1 /\ Places(2) = 1
  /\ HeldUpTo(MaxClients) = 2
  /\ \E j \in 1 .. Len(particles[lastOp.id]) :
       particles[lastOp.id][j].behavior = "absorbing"

(***************************************************************************)
(* C26.  A particle a client pushed for a spawn-particle message never has *)
(* that client post a particle-exit, wherever it moves: it has behavior    *)
(* 'absorbing' as long as it is in the array, and a particle-exit is       *)
(* posted only in a frame and only for a 'flow' particle the client made   *)
(* itself.  So a particle crosses between clients at most once.            *)
(***************************************************************************)
C26_ReceivedNeverLeaves ==
  [][ \A id \in Ids :
        /\ \A j \in 1 .. Len(particles'[id]) :
             particles'[id][j].received => particles'[id][j].behavior = "absorbing"
        /\ NewlyPosted(id) # << >> => (lastOp'.op = "animate" /\ lastOp'.id = id)
        /\ \A k \in 1 .. Len(NewlyPosted(id)) :
             \E i \in 1 .. Len(InFrame(id, lastOp'.msg.emit)) :
                /\ InFrame(id, lastOp'.msg.emit)[i].pid = NewlyPosted(id)[k].pid
                /\ ~InFrame(id, lastOp'.msg.emit)[i].received
                /\ InFrame(id, lastOp'.msg.emit)[i].behavior = "flow"
    ]_vars

\* A frame of a client with neighbours moved a particle it had received past
\* the right edge of the canvas: the particle is still in the array, and
\* nothing was posted.
C26_Witness ==
  /\ lastOp.op = "animate"
  /\ Len(neighbors[lastOp.id]) > 0
  /\ \A id \in Ids : outbox[id] = << >>
  /\ \E j \in 1 .. Len(particles[lastOp.id]) :
       /\ particles[lastOp.id][j].received
       /\ particles[lastOp.id][j].x > Canvas.width
       /\ lastOp.msg.plan[j].move.x > Canvas.width

(***************************************************************************)
(* C27.  Of one tick and any two clients A and B of the registry: the      *)
(* update-state to A has one neighbour entry for B and the one to B one    *)
(* for A, the two have the same dist, and their dx and their dy add up to  *)
(* zero.                                                                   *)
(***************************************************************************)
\* The neighbour entries for B in what the tick sent to A.
EntriesAbout(A, B) ==
  UNION { {updates[i].neighbors[k] :
             k \in {n \in 1 .. Len(updates[i].neighbors) :
                      updates[i].neighbors[n].id = B}} :
          i \in {m \in 1 .. Len(updates) : updates[m].to = A} }

C27_PairwiseOpposite ==
  Ticked =>
    \A A, B \in IdsOf(Registry) :
       A # B =>
         /\ Cardinality(EntriesAbout(A, B)) = 1
         /\ \A e \in EntriesAbout(A, B), f \in EntriesAbout(B, A) :
              /\ IsFinite(e.dist) /\ e.dist = f.dist
              /\ Add(e.dx, f.dx) = Num(0)
              /\ Add(e.dy, f.dy) = Num(0)

\* A tick over three clients, two of them windows of different sizes with
\* their centres (48, 36) apart.
C27_Witness ==
  /\ Ticked
  /\ Len(updates) = 3
  /\ \E A, B \in IdsOf(Registry) :
       /\ \E e \in EntriesAbout(A, B) :
            e.dx = Num(48) /\ e.dy = Num(36) /\ e.dist = Num(60)
       /\ \E f \in EntriesAbout(B, A) :
            f.dx = Num(-48) /\ f.dy = Num(-36) /\ f.dist = Num(60)

====
